---- MODULE Spec2Model ----
(***************************************************************************)
(* Model of script/generate-strings.py: the extraction of the constant     *)
(* families from the preprocessed header text and the disambiguation of    *)
(* property selectors that share a code.                                   *)
(*                                                                         *)
(* The preprocessed text `defs` is a sequence of definitions               *)
(* `name = literal`, separated by white space; every name and literal is   *)
(* a token without white space, spelled out character by character in      *)
(* Spelling so that str.startswith, len and the regular expressions are    *)
(* computed on the characters.                                             *)
(***************************************************************************)
EXTENDS Integers, Sequences, FiniteSets, TLC

VARIABLES defs, pc, pos, selector2code, code2selector, class2code,
          scope2code, operation2code, error2code, formatID, formatFlag

vars == <<defs, pc, pos, selector2code, code2selector, class2code,
          scope2code, operation2code, error2code, formatID, formatFlag>>

(* Longest input text, in definitions, of the selector scans. *)
MaxLen == 4
(* Longest input text of the class, scope, operation, error and format scans. *)
MaxFamLen == 3
(* Longest input text whose permutations are compared. *)
MaxGroup == 3

(***************************************************************************)
(* Strings.                                                                *)
(***************************************************************************)
Spelling ==
       "kAudio" :> <<"k", "A", "u", "d", "i", "o">> @@
       "Property" :> <<"P", "r", "o", "p", "e", "r", "t", "y">> @@
       "ClassID" :> <<"C", "l", "a", "s", "s", "I", "D">> @@
       "kAudioObject" :> <<"k", "A", "u", "d", "i", "o", "O", "b", "j", "e", "c", "t">> @@
       "kAudioDevice" :> <<"k", "A", "u", "d", "i", "o", "D", "e", "v", "i", "c", "e">> @@
       "kAudioStream" :> <<"k", "A", "u", "d", "i", "o", "S", "t", "r", "e", "a", "m">> @@
       "kAudioControl" :> <<"k", "A", "u", "d", "i", "o", "C", "o", "n", "t", "r", "o", "l">> @@
       "kAudioLevelControl" :> <<"k", "A", "u", "d", "i", "o", "L", "e", "v", "e", "l", "C", "o", "n", "t", "r", "o", "l">> @@
       "kAudioPlugIn" :> <<"k", "A", "u", "d", "i", "o", "P", "l", "u", "g", "I", "n">> @@
       "kAudioObjectPropertyScope" :> <<"k", "A", "u", "d", "i", "o", "O", "b", "j", "e", "c", "t", "P", "r", "o", "p", "e", "r", "t", "y", "S", "c", "o", "p", "e">> @@
       "kAudioObjectPropertyElement" :> <<"k", "A", "u", "d", "i", "o", "O", "b", "j", "e", "c", "t", "P", "r", "o", "p", "e", "r", "t", "y", "E", "l", "e", "m", "e", "n", "t">> @@
       "kAudioHardware" :> <<"k", "A", "u", "d", "i", "o", "H", "a", "r", "d", "w", "a", "r", "e">> @@
       "kAudioServerPlugInCustomPropertyDataType" :> <<"k", "A", "u", "d", "i", "o", "S", "e", "r", "v", "e", "r", "P", "l", "u", "g", "I", "n", "C", "u", "s", "t", "o", "m", "P", "r", "o", "p", "e", "r", "t", "y", "D", "a", "t", "a", "T", "y", "p", "e">> @@
       "kAudioServerPlugInIOOperation" :> <<"k", "A", "u", "d", "i", "o", "S", "e", "r", "v", "e", "r", "P", "l", "u", "g", "I", "n", "I", "O", "O", "p", "e", "r", "a", "t", "i", "o", "n">> @@
       "kAudioFormat" :> <<"k", "A", "u", "d", "i", "o", "F", "o", "r", "m", "a", "t">> @@
       "kAudioFormatFlag" :> <<"k", "A", "u", "d", "i", "o", "F", "o", "r", "m", "a", "t", "F", "l", "a", "g">> @@
       "kAudioDevicePropertyStreams" :> <<"k", "A", "u", "d", "i", "o", "D", "e", "v", "i", "c", "e", "P", "r", "o", "p", "e", "r", "t", "y", "S", "t", "r", "e", "a", "m", "s">> @@
       "kAudioStreamPropertyLatency" :> <<"k", "A", "u", "d", "i", "o", "S", "t", "r", "e", "a", "m", "P", "r", "o", "p", "e", "r", "t", "y", "L", "a", "t", "e", "n", "c", "y">> @@
       "kAudioClockDevicePropertyStreams" :> <<"k", "A", "u", "d", "i", "o", "C", "l", "o", "c", "k", "D", "e", "v", "i", "c", "e", "P", "r", "o", "p", "e", "r", "t", "y", "S", "t", "r", "e", "a", "m", "s">> @@
       "kAudioBoxPropertyUID" :> <<"k", "A", "u", "d", "i", "o", "B", "o", "x", "P", "r", "o", "p", "e", "r", "t", "y", "U", "I", "D">> @@
       "kAudioObjectPropertyScopeGlobal" :> <<"k", "A", "u", "d", "i", "o", "O", "b", "j", "e", "c", "t", "P", "r", "o", "p", "e", "r", "t", "y", "S", "c", "o", "p", "e", "G", "l", "o", "b", "a", "l">> @@
       "kAudioObjectPropertyScopeInput" :> <<"k", "A", "u", "d", "i", "o", "O", "b", "j", "e", "c", "t", "P", "r", "o", "p", "e", "r", "t", "y", "S", "c", "o", "p", "e", "I", "n", "p", "u", "t">> @@
       "kAudioObjectPropertyElementMain" :> <<"k", "A", "u", "d", "i", "o", "O", "b", "j", "e", "c", "t", "P", "r", "o", "p", "e", "r", "t", "y", "E", "l", "e", "m", "e", "n", "t", "M", "a", "i", "n">> @@
       "kAudioHardwarePropertyDevices" :> <<"k", "A", "u", "d", "i", "o", "H", "a", "r", "d", "w", "a", "r", "e", "P", "r", "o", "p", "e", "r", "t", "y", "D", "e", "v", "i", "c", "e", "s">> @@
       "kAudioServerPlugInCustomPropertyDataTypeNone" :> <<"k", "A", "u", "d", "i", "o", "S", "e", "r", "v", "e", "r", "P", "l", "u", "g", "I", "n", "C", "u", "s", "t", "o", "m", "P", "r", "o", "p", "e", "r", "t", "y", "D", "a", "t", "a", "T", "y", "p", "e", "N", "o", "n", "e">> @@
       "kAudioDeviceClassID" :> <<"k", "A", "u", "d", "i", "o", "D", "e", "v", "i", "c", "e", "C", "l", "a", "s", "s", "I", "D">> @@
       "kAudioStreamClassID" :> <<"k", "A", "u", "d", "i", "o", "S", "t", "r", "e", "a", "m", "C", "l", "a", "s", "s", "I", "D">> @@
       "kAudioServerPlugInIOOperationThread" :> <<"k", "A", "u", "d", "i", "o", "S", "e", "r", "v", "e", "r", "P", "l", "u", "g", "I", "n", "I", "O", "O", "p", "e", "r", "a", "t", "i", "o", "n", "T", "h", "r", "e", "a", "d">> @@
       "kAudioServerPlugInIOOperationCycle" :> <<"k", "A", "u", "d", "i", "o", "S", "e", "r", "v", "e", "r", "P", "l", "u", "g", "I", "n", "I", "O", "O", "p", "e", "r", "a", "t", "i", "o", "n", "C", "y", "c", "l", "e">> @@
       "kAudioHardwareNotRunningError" :> <<"k", "A", "u", "d", "i", "o", "H", "a", "r", "d", "w", "a", "r", "e", "N", "o", "t", "R", "u", "n", "n", "i", "n", "g", "E", "r", "r", "o", "r">> @@
       "kAudioHardwareBadDeviceError" :> <<"k", "A", "u", "d", "i", "o", "H", "a", "r", "d", "w", "a", "r", "e", "B", "a", "d", "D", "e", "v", "i", "c", "e", "E", "r", "r", "o", "r">> @@
       "kAudioFormatFlagIsFloat" :> <<"k", "A", "u", "d", "i", "o", "F", "o", "r", "m", "a", "t", "F", "l", "a", "g", "I", "s", "F", "l", "o", "a", "t">> @@
       "kAudioFormatFlagIsBigEndian" :> <<"k", "A", "u", "d", "i", "o", "F", "o", "r", "m", "a", "t", "F", "l", "a", "g", "I", "s", "B", "i", "g", "E", "n", "d", "i", "a", "n">> @@
       "kAudioFormatLinearPCM" :> <<"k", "A", "u", "d", "i", "o", "F", "o", "r", "m", "a", "t", "L", "i", "n", "e", "a", "r", "P", "C", "M">> @@
       "'stm#'" :> <<"'", "s", "t", "m", "#", "'">> @@
       "'ltnc'" :> <<"'", "l", "t", "n", "c", "'">> @@
       "'lpcm'" :> <<"'", "l", "p", "c", "m", "'">> @@
       "0" :> <<"0">> @@
       "1" :> <<"1">>

(* len(s) *)
StrLen(s) == Len(Spelling[s])

(* s.startswith(prefix) *)
startswith(s, prefix) ==
    /\ Len(Spelling[prefix]) <= Len(Spelling[s])
    /\ SubSeq(Spelling[s], 1, Len(Spelling[prefix])) = Spelling[prefix]

(* s.endswith(suffix): the tail a pattern ends a name with *)
endswith(s, suffix) ==
    /\ Len(Spelling[suffix]) <= Len(Spelling[s])
    /\ SubSeq(Spelling[s], Len(Spelling[s]) - Len(Spelling[suffix]) + 1,
              Len(Spelling[s])) = Spelling[suffix]

(* The pattern '\S+' : a quote, one character or more, a quote. *)
QuotedLiteral(lit) ==
    /\ StrLen(lit) >= 3
    /\ Spelling[lit][1] = "'"
    /\ Spelling[lit][StrLen(lit)] = "'"

(***************************************************************************)
(* The regular expressions of the six scans.  A pattern's name part is the *)
(* set of tokens it matches; a definition d matches when its name and its  *)
(* literal do.                                                             *)
(***************************************************************************)

Tokens == DOMAIN Spelling

(* '\S+' *)
QuotedLiterals == {t \in Tokens : QuotedLiteral(t)}

(* kAudio\S+Property\S+ *)
SelectorPattern ==
    {t \in Tokens :
        /\ startswith(t, "kAudio")
        /\ \E j \in (StrLen("kAudio") + 2)..(StrLen(t) - StrLen("Property")) :
              SubSeq(Spelling[t], j, j + StrLen("Property") - 1) = Spelling["Property"]}

(* kAudio\S+ClassID *)
ClassPattern ==
    {t \in Tokens :
        /\ startswith(t, "kAudio")
        /\ endswith(t, "ClassID")
        /\ StrLen(t) > StrLen("kAudio") + StrLen("ClassID")}

(* kAudioObjectPropertyScope\S+ *)
ScopePattern ==
    {t \in Tokens :
        /\ startswith(t, "kAudioObjectPropertyScope")
        /\ StrLen(t) > StrLen("kAudioObjectPropertyScope")}

(* kAudioServerPlugInIOOperation\S+ *)
OperationPattern ==
    {t \in Tokens :
        /\ startswith(t, "kAudioServerPlugInIOOperation")
        /\ StrLen(t) > StrLen("kAudioServerPlugInIOOperation")}

(* kAudioHardware\S+ *)
ErrorPattern ==
    {t \in Tokens :
        /\ startswith(t, "kAudioHardware")
        /\ StrLen(t) > StrLen("kAudioHardware")}

(* kAudioFormat\S+ *)
FormatPattern ==
    {t \in Tokens :
        /\ startswith(t, "kAudioFormat")
        /\ StrLen(t) > StrLen("kAudioFormat")}

(* (kAudio\S+Property\S+)\s*=\s*('\S+') *)
SelectorRe(d) == d.name \in SelectorPattern /\ d.lit \in QuotedLiterals

(* (kAudio\S+ClassID)\s*=\s*('\S+') *)
ClassRe(d) == d.name \in ClassPattern /\ d.lit \in QuotedLiterals

(* (kAudioObjectPropertyScope\S+)\s*=\s*('\S+') *)
ScopeRe(d) == d.name \in ScopePattern /\ d.lit \in QuotedLiterals

(* (kAudioServerPlugInIOOperation\S+)\s*=\s*('\S+') *)
OperationRe(d) == d.name \in OperationPattern /\ d.lit \in QuotedLiterals

(* (kAudioHardware\S+)\s*=\s*('\S+') *)
ErrorRe(d) == d.name \in ErrorPattern /\ d.lit \in QuotedLiterals

(* (kAudioFormat\S+)\s*=\s*(\S+) *)
FormatRe(d) == d.name \in FormatPattern /\ StrLen(d.lit) >= 1

(***************************************************************************)
(* Python dict operations.                                                 *)
(***************************************************************************)

(* {} *)
EmptyDict == [k \in {} |-> ""]

(* DictSet as dict.setdefault: a key the dict holds keeps its value. *)
DictSetDefault(d, k, v) == [x \in DOMAIN d \cup {k} |-> IF x \in DOMAIN d THEN d[x] ELSE v]

(* d[k] = v *)
DictSet(d, k, v) == [x \in DOMAIN d \cup {k} |-> IF x = k THEN v ELSE d[x]]

(* del d[k], for a key d holds *)
DictDel(d, k) == [x \in DOMAIN d \ {k} |-> d[x]]

(***************************************************************************)
(* The selector disambiguation.                                            *)
(***************************************************************************)

highprio_prefixes ==
    {"kAudioObject", "kAudioDevice", "kAudioStream", "kAudioControl",
     "kAudioLevelControl", "kAudioPlugIn"}

IsHighPrio(a) == \E prefix \in highprio_prefixes : startswith(a, prefix)

(* selector_is_better by length alone, the prefixes forgotten. *)
selector_is_better_shorter(a, b) == StrLen(a) < StrLen(b)

(* selector_is_better with <= for <: a tie goes to the challenger. *)
selector_is_better_or_equal(a, b) ==
    IF IsHighPrio(a) = IsHighPrio(b)
    THEN StrLen(a) <= StrLen(b)
    ELSE IsHighPrio(a)

(* selector_is_better as `a_is_highprio or len(a) < len(b)`. *)
selector_is_better_prio_or_shorter(a, b) == IsHighPrio(a) \/ StrLen(a) < StrLen(b)

(* check if selector a is "better" than selector b *)
selector_is_better(a, b) ==
    IF IsHighPrio(a) = IsHighPrio(b)
    THEN StrLen(a) < StrLen(b)
    ELSE IsHighPrio(a)

(* SelectorSkipped without the scope test. *)
SelectorSkippedNoScope(name) ==
    \/ startswith(name, "kAudioObjectPropertyElement")
    \/ startswith(name, "kAudioHardware")
    \/ startswith(name, "kAudioServerPlugInCustomPropertyDataType")

(* The names the selector scan skips: scopes, elements, error codes and
   custom property types. *)
SelectorSkipped(name) ==
    \/ startswith(name, "kAudioObjectPropertyScope")
    \/ startswith(name, "kAudioObjectPropertyElement")
    \/ startswith(name, "kAudioHardware")
    \/ startswith(name, "kAudioServerPlugInCustomPropertyDataType")

(* SelectorBody without `del selector2code[other_name]`: the loser stays. *)
SelectorBodyKeepsLoser(s2c, c2s, name, code) ==
    IF SelectorSkipped(name)
    THEN [s2c |-> s2c, c2s |-> c2s, raised |-> FALSE]
    ELSE IF code \in DOMAIN c2s /\ ~selector_is_better(name, c2s[code])
    THEN [s2c |-> s2c, c2s |-> c2s, raised |-> FALSE]
    ELSE [s2c |-> DictSet(s2c, name, code),
          c2s |-> DictSet(c2s, code, name),
          raised |-> FALSE]

(* One iteration of the selector loop on the match (name, code), from the
   maps s2c and c2s.  raised: `del selector2code[other_name]` found no such
   key and raised KeyError, which ends the program. *)
SelectorBody(s2c, c2s, name, code) ==
    IF SelectorSkipped(name)
    THEN [s2c |-> s2c, c2s |-> c2s, raised |-> FALSE]
    ELSE IF code \in DOMAIN c2s /\ ~selector_is_better(name, c2s[code])
    THEN [s2c |-> s2c, c2s |-> c2s, raised |-> FALSE]
    ELSE IF code \in DOMAIN c2s /\ c2s[code] \notin DOMAIN s2c
    THEN [s2c |-> s2c, c2s |-> c2s, raised |-> TRUE]
    ELSE LET kept == IF code \in DOMAIN c2s THEN DictDel(s2c, c2s[code]) ELSE s2c
         IN  [s2c |-> DictSet(kept, name, code),
              c2s |-> DictSet(c2s, code, name),
              raised |-> FALSE]

(***************************************************************************)
(* The input texts.                                                        *)
(***************************************************************************)

Def(name, lit) == [name |-> name, lit |-> lit]

SeqsUpTo(S, n) == UNION {[1..k -> S] : k \in 0..n}

(* Selectors that compete for a code: two high-priority names of one
   length, and two others, one shorter and one longer than those. *)
ConflictDefs ==
    {Def(n, c) : n \in {"kAudioDevicePropertyStreams", "kAudioStreamPropertyLatency",
                        "kAudioClockDevicePropertyStreams", "kAudioBoxPropertyUID"},
                 c \in {"'stm#'", "'ltnc'"}}

(* Names the selector pattern matches and the scan skips, beside two
   selectors of the same code. *)
ExclusionDefs ==
    {Def(n, "'stm#'") : n \in {"kAudioObjectPropertyScopeGlobal", "kAudioObjectPropertyScope",
                               "kAudioObjectPropertyElementMain", "kAudioHardwarePropertyDevices",
                               "kAudioServerPlugInCustomPropertyDataTypeNone",
                               "kAudioDevicePropertyStreams", "kAudioBoxPropertyUID"}}
    \cup {Def("kAudioObjectPropertyScopeGlobal", "1")}

ClassDefs ==
    {Def(n, c) : n \in {"kAudioDeviceClassID", "kAudioStreamClassID"}, c \in {"'stm#'", "'ltnc'"}}
    \cup {Def("kAudioDeviceClassID", "1")}

ScopeDefs ==
    {Def(n, c) : n \in {"kAudioObjectPropertyScopeGlobal", "kAudioObjectPropertyScopeInput"},
                 c \in {"'stm#'", "'ltnc'"}}
    \cup {Def("kAudioObjectPropertyScope", "'stm#'")}

OperationDefs ==
    {Def(n, c) : n \in {"kAudioServerPlugInIOOperationThread", "kAudioServerPlugInIOOperationCycle"},
                 c \in {"'stm#'", "'ltnc'"}}
    \cup {Def("kAudioServerPlugInIOOperationThread", "1")}

ErrorDefs ==
    {Def(n, c) : n \in {"kAudioHardwareNotRunningError", "kAudioHardwareBadDeviceError"},
                 c \in {"'stm#'", "'ltnc'"}}
    \cup {Def("kAudioHardwarePropertyDevices", "'stm#'")}

FormatDefs ==
    {Def(n, c) : n \in {"kAudioFormatFlagIsFloat", "kAudioFormatFlagIsBigEndian"}, c \in {"0", "1"}}
    \cup {Def("kAudioFormatLinearPCM", "'lpcm'"), Def("kAudioFormatLinearPCM", "0")}

(***************************************************************************)
(* The program.                                                            *)
(***************************************************************************)

Cleared ==
    /\ pc = "selector"
    /\ pos = 1
    /\ selector2code = EmptyDict
    /\ code2selector = EmptyDict
    /\ class2code = EmptyDict
    /\ scope2code = EmptyDict
    /\ operation2code = EmptyDict
    /\ error2code = EmptyDict
    /\ formatID = {}
    /\ formatFlag = {}

Init ==
    /\ defs \in SeqsUpTo(ConflictDefs, MaxLen) \cup SeqsUpTo(ExclusionDefs, MaxLen)
                \cup SeqsUpTo(ClassDefs, MaxFamLen) \cup SeqsUpTo(ScopeDefs, MaxFamLen)
                \cup SeqsUpTo(OperationDefs, MaxFamLen) \cup SeqsUpTo(ErrorDefs, MaxFamLen)
                \cup SeqsUpTo(FormatDefs, MaxFamLen)
    /\ Cleared

(* The matches that re.finditer has yet to yield, per pattern. *)
SelectorMatches == {j \in pos..Len(defs) : SelectorRe(defs[j])}
ClassMatches == {j \in pos..Len(defs) : ClassRe(defs[j])}
ScopeMatches == {j \in pos..Len(defs) : ScopeRe(defs[j])}
OperationMatches == {j \in pos..Len(defs) : OperationRe(defs[j])}
ErrorMatches == {j \in pos..Len(defs) : ErrorRe(defs[j])}
FormatMatches == {j \in pos..Len(defs) : FormatRe(defs[j])}

Min(S) == CHOOSE j \in S : \A k \in S : j <= k

(* fill selector2code *)
FillSelector ==
    /\ pc = "selector"
    /\ IF SelectorMatches = {}
       THEN /\ pc' = "class"
            /\ pos' = 1
            /\ UNCHANGED <<selector2code, code2selector>>
       ELSE LET m == Min(SelectorMatches)
                r == SelectorBody(selector2code, code2selector, defs[m].name, defs[m].lit)
            IN  /\ pc' = IF r.raised THEN "KeyError" ELSE pc
                /\ pos' = IF r.raised THEN pos ELSE m + 1
                /\ selector2code' = r.s2c
                /\ code2selector' = r.c2s
    /\ UNCHANGED <<defs, class2code, scope2code, operation2code, error2code,
                   formatID, formatFlag>>

(* fill class2code *)
FillClass ==
    /\ pc = "class"
    /\ IF ClassMatches = {}
       THEN /\ pc' = "scope"
            /\ pos' = 1
            /\ UNCHANGED class2code
       ELSE LET m == Min(ClassMatches)
            IN  /\ class2code' = DictSet(class2code, defs[m].name, defs[m].lit)
                /\ pos' = m + 1
                /\ UNCHANGED pc
    /\ UNCHANGED <<defs, selector2code, code2selector, scope2code, operation2code,
                   error2code, formatID, formatFlag>>

(* fill scope2code *)
FillScope ==
    /\ pc = "scope"
    /\ IF ScopeMatches = {}
       THEN /\ pc' = "operation"
            /\ pos' = 1
            /\ UNCHANGED scope2code
       ELSE LET m == Min(ScopeMatches)
            IN  /\ scope2code' = DictSet(scope2code, defs[m].name, defs[m].lit)
                /\ pos' = m + 1
                /\ UNCHANGED pc
    /\ UNCHANGED <<defs, selector2code, code2selector, class2code, operation2code,
                   error2code, formatID, formatFlag>>

(* fill operation2code *)
FillOperation ==
    /\ pc = "operation"
    /\ IF OperationMatches = {}
       THEN /\ pc' = "error"
            /\ pos' = 1
            /\ UNCHANGED operation2code
       ELSE LET m == Min(OperationMatches)
            IN  /\ operation2code' = DictSet(operation2code, defs[m].name, defs[m].lit)
                /\ pos' = m + 1
                /\ UNCHANGED pc
    /\ UNCHANGED <<defs, selector2code, code2selector, class2code, scope2code,
                   error2code, formatID, formatFlag>>

(* fill error2code *)
FillError ==
    /\ pc = "error"
    /\ IF ErrorMatches = {}
       THEN /\ pc' = "format"
            /\ pos' = 1
            /\ UNCHANGED error2code
       ELSE LET m == Min(ErrorMatches)
            IN  /\ error2code' = DictSet(error2code, defs[m].name, defs[m].lit)
                /\ pos' = m + 1
                /\ UNCHANGED pc
    /\ UNCHANGED <<defs, selector2code, code2selector, class2code, scope2code,
                   operation2code, formatID, formatFlag>>

(* FormatFlagBody without the test of the zero literal. *)
FormatFlagBodyKeepsZero(flags, name, code) ==
    IF startswith(name, "kAudioFormatFlag") THEN flags \cup {name} ELSE flags

(* The format flags after one iteration of the format loop. *)
FormatFlagBody(flags, name, code) ==
    IF startswith(name, "kAudioFormatFlag") /\ code # "0"
    THEN flags \cup {name}
    ELSE flags

(* The format IDs after one iteration of the format loop. *)
FormatIDBody(ids, name, code) ==
    IF startswith(name, "kAudioFormatFlag") THEN ids ELSE ids \cup {name}

(* fill formatID and formatFlag *)
FillFormat ==
    /\ pc = "format"
    /\ IF FormatMatches = {}
       THEN /\ pc' = "render"
            /\ pos' = 1
            /\ UNCHANGED <<formatID, formatFlag>>
       ELSE LET m == Min(FormatMatches)
            IN  /\ formatFlag' = FormatFlagBody(formatFlag, defs[m].name, defs[m].lit)
                /\ formatID' = FormatIDBody(formatID, defs[m].name, defs[m].lit)
                /\ pos' = m + 1
                /\ UNCHANGED pc
    /\ UNCHANGED <<defs, selector2code, code2selector, class2code, scope2code,
                   operation2code, error2code>>

Next ==
    \/ FillSelector
    \/ FillClass
    \/ FillScope
    \/ FillOperation
    \/ FillError
    \/ FillFormat

Spec == Init /\ [][Next]_vars

(* The texts whose permutations are compared: competing selectors only. *)
InitOrder ==
    /\ defs \in SeqsUpTo(ConflictDefs, MaxGroup)
    /\ Cleared

SpecOrder == InitOrder /\ [][Next]_vars

(* The selector loop run on a whole text ds, from the maps s2c and c2s:
   the maps it ends with, or those it had when KeyError was raised. *)
RECURSIVE ScanSelectors(_, _, _)
ScanSelectors(ds, s2c, c2s) ==
    IF ds = << >>
    THEN [s2c |-> s2c, c2s |-> c2s, raised |-> FALSE]
    ELSE IF ~SelectorRe(Head(ds))
    THEN ScanSelectors(Tail(ds), s2c, c2s)
    ELSE LET r == SelectorBody(s2c, c2s, Head(ds).name, Head(ds).lit)
         IN  IF r.raised THEN r ELSE ScanSelectors(Tail(ds), r.s2c, r.c2s)

(***************************************************************************)
(* Vocabulary of the properties.                                           *)
(***************************************************************************)

(* The selector loop ran to its end. *)
SelectorDone == pc \notin {"selector", "KeyError"}

(* The names with one of the four exclusion prefixes. *)
ExcludedNames ==
    {t \in Tokens :
        \E p \in {"kAudioObjectPropertyScope", "kAudioObjectPropertyElement",
                  "kAudioHardware", "kAudioServerPlugInCustomPropertyDataType"} :
            /\ StrLen(t) >= StrLen(p)
            /\ \A k \in 1..StrLen(p) : Spelling[t][k] = Spelling[p][k]}

ExcludedName(n) == n \in ExcludedNames

(* The names that start with one of the six high-priority prefixes. *)
HighPriorityNames ==
    {t \in Tokens :
        \E p \in {"kAudioObject", "kAudioDevice", "kAudioStream", "kAudioControl",
                  "kAudioLevelControl", "kAudioPlugIn"} :
            /\ StrLen(t) >= StrLen(p)
            /\ \A k \in 1..StrLen(p) : Spelling[t][k] = Spelling[p][k]}

HighPriorityName(n) == n \in HighPriorityNames

(* The challenger a is preferred to the incumbent b. *)
Preferred(a, b) ==
    \/ HighPriorityName(a) /\ ~HighPriorityName(b)
    \/ /\ HighPriorityName(a) = HighPriorityName(b)
       /\ StrLen(a) < StrLen(b)

(* The positions of the accepted selector definitions of the text. *)
AcceptedAt == {j \in 1..Len(defs) : SelectorRe(defs[j]) /\ ~ExcludedName(defs[j].name)}

(* The names accepted with code c, and the codes name n is accepted with. *)
Group(c) == {defs[j].name : j \in {k \in AcceptedAt : defs[k].lit = c}}
CodesOf(n) == {defs[j].lit : j \in {k \in AcceptedAt : defs[k].name = n}}
AcceptedCodes == {defs[j].lit : j \in AcceptedAt}
AcceptedNames == {defs[j].name : j \in AcceptedAt}

(* The names selector2code maps to code c. *)
Holders(s2c, c) == {n \in DOMAIN s2c : s2c[n] = c}

(* Some name is accepted with two different codes. *)
Redefinition == \E n \in AcceptedNames : Cardinality(CodesOf(n)) > 1

(* The definition the selector loop handles next, when there is one. *)
SelectorPending == pc = "selector" /\ SelectorMatches # {}
Pending == defs[Min(SelectorMatches)]

(***************************************************************************)
(* C1                                                                      *)
(***************************************************************************)

(* C1: at every step of the selector scan and after it, selector2code
   never maps two distinct names to the same code, also when a name is
   defined more than once. *)
UniqueCodes ==
    \A n1, n2 \in DOMAIN selector2code :
        selector2code[n1] = selector2code[n2] => n1 = n2

(* A name was defined with two codes and two names are mapped. *)
UniqueCodesWitness ==
    /\ SelectorDone
    /\ Redefinition
    /\ Cardinality(DOMAIN selector2code) >= 2

(***************************************************************************)
(* C3, C4, C8                                                              *)
(***************************************************************************)

(* C3: after the scan, every code carried by an accepted definition has
   exactly one name mapped to it in selector2code. *)
ExactlyOneWinner ==
    SelectorDone => \A c \in AcceptedCodes : Cardinality(Holders(selector2code, c)) = 1

(* C4: the selector scan never raises: whenever the pending challenger
   beats the incumbent code2selector[code], that incumbent is a key of
   selector2code, and no KeyError ends the scan. *)
ScanNeverRaises ==
    /\ pc # "KeyError"
    /\ (/\ SelectorPending
        /\ ~ExcludedName(Pending.name)
        /\ Pending.lit \in DOMAIN code2selector
        /\ Preferred(Pending.name, code2selector[Pending.lit]))
       => code2selector[Pending.lit] \in DOMAIN selector2code

(* C8: after the scan, code2selector is exactly the inverse of
   selector2code, so that a name that lost is in neither view. *)
InverseViews ==
    SelectorDone =>
        /\ \A n \in DOMAIN selector2code :
              /\ selector2code[n] \in DOMAIN code2selector
              /\ code2selector[selector2code[n]] = n
        /\ \A c \in DOMAIN code2selector :
              /\ code2selector[c] \in DOMAIN selector2code
              /\ selector2code[code2selector[c]] = c

(***************************************************************************)
(* C5                                                                      *)
(***************************************************************************)

(* C5: a definition whose name has an exclusion prefix never becomes a
   key of selector2code, and the step that meets it changes neither
   selector2code nor code2selector; a name of the scope pattern (the
   scope prefix and more) defined with a quoted code is recorded in
   scope2code all the same. *)
ExclusionCorrect ==
    /\ [](\A n \in DOMAIN selector2code : ~ExcludedName(n))
    /\ [][(SelectorPending /\ ExcludedName(Pending.name))
            => /\ selector2code' = selector2code
               /\ code2selector' = code2selector
               /\ pc' = "selector"]_vars
    /\ [](pc = "render" =>
            \A j \in 1..Len(defs) :
                (/\ ExcludedName(defs[j].name)
                 /\ defs[j].name \in ScopePattern
                 /\ QuotedLiteral(defs[j].lit))
                => /\ defs[j].name \in DOMAIN scope2code
                   /\ defs[j].name \notin DOMAIN selector2code)

(* A scope definition came first with the code of a selector after it:
   the selector is mapped, the scope name is in scope2code only. *)
ExclusionWitness ==
    /\ pc = "render"
    /\ Len(defs) >= 2
    /\ defs[1] = Def("kAudioObjectPropertyScopeGlobal", "'stm#'")
    /\ defs[2] = Def("kAudioBoxPropertyUID", "'stm#'")
    /\ "kAudioBoxPropertyUID" \in DOMAIN selector2code
    /\ "kAudioObjectPropertyScopeGlobal" \in DOMAIN scope2code
    /\ "kAudioObjectPropertyScopeGlobal" \notin DOMAIN selector2code

(***************************************************************************)
(* C6                                                                      *)
(***************************************************************************)

(* The positions of the format-flag definitions of the text. *)
FlagAt == {j \in 1..Len(defs) : FormatRe(defs[j]) /\ startswith(defs[j].name, "kAudioFormatFlag")}

(* C6 as stated: after the scan a flag name with some definition of
   literal '0' is not in formatFlag, whatever its other definitions, and a
   flag name defined with non-zero literals only is in it. *)
ZeroFlagExcluded ==
    pc = "render" =>
        \A j \in FlagAt :
            IF \E k \in FlagAt : defs[k].name = defs[j].name /\ defs[k].lit = "0"
            THEN defs[j].name \notin formatFlag
            ELSE defs[j].name \in formatFlag

(* C6, amended: after the scan formatFlag holds exactly the flag names
   with at least one definition whose literal is not '0': a name defined
   with '0' only is absent, a name defined with non-zero literals only is
   present, and so is a name defined with both. *)
ZeroOnlyFlagExcluded ==
    pc = "render" =>
        formatFlag = {defs[j].name : j \in {k \in FlagAt : defs[k].lit # "0"}}

(* One flag is defined with 1 and then with 0 and is a member; another
   is defined with 0 only and is not. *)
ZeroFlagWitness ==
    /\ pc = "render"
    /\ Len(defs) = 3
    /\ defs[1] = Def("kAudioFormatFlagIsFloat", "1")
    /\ defs[2] = Def("kAudioFormatFlagIsFloat", "0")
    /\ defs[3] = Def("kAudioFormatFlagIsBigEndian", "0")
    /\ formatFlag = {"kAudioFormatFlagIsFloat"}

(***************************************************************************)
(* C7                                                                      *)
(***************************************************************************)

(* C7: when the names accepted with a code are two, one high-priority
   and one not, and the high-priority name carries that code only, then
   after the scan selector2code maps the high-priority name to the code
   and not the other name, whatever their lengths and order. *)
HighPrioWins ==
    SelectorDone =>
        \A c \in AcceptedCodes : \A h, n \in Group(c) :
            (/\ Group(c) = {h, n}
             /\ HighPriorityName(h)
             /\ ~HighPriorityName(n)
             /\ CodesOf(h) = {c})
            => /\ h \in DOMAIN selector2code
               /\ selector2code[h] = c
               /\ ~(n \in DOMAIN selector2code /\ selector2code[n] = c)

(* The shorter name without priority came first and was replaced. *)
HighPrioWinsWitness ==
    /\ SelectorDone
    /\ defs = <<Def("kAudioBoxPropertyUID", "'stm#'"),
                Def("kAudioDevicePropertyStreams", "'stm#'")>>
    /\ DOMAIN selector2code = {"kAudioDevicePropertyStreams"}

(***************************************************************************)
(* C9                                                                      *)
(***************************************************************************)

(* The pending definition is accepted and its code is held by another
   name: code2selector names that incumbent and selector2code maps it to
   the code. *)
ConflictStep ==
    /\ SelectorPending
    /\ ~ExcludedName(Pending.name)
    /\ Pending.lit \in DOMAIN code2selector
    /\ code2selector[Pending.lit] # Pending.name
    /\ code2selector[Pending.lit] \in DOMAIN selector2code
    /\ selector2code[code2selector[Pending.lit]] = Pending.lit

(* C9: at a conflict step the incumbent is replaced if and only if the
   challenger is high-priority and the incumbent is not, or both have the
   same status and the challenger is strictly shorter; otherwise, and so
   on an exact tie, neither map changes. *)
ReplacementRule ==
    [][ConflictStep =>
         LET name == Pending.name
             code == Pending.lit
             other == code2selector[Pending.lit]
         IN  IF Preferred(name, other)
             THEN /\ other \notin DOMAIN selector2code'
                  /\ name \in DOMAIN selector2code'
                  /\ selector2code'[name] = code
                  /\ code2selector'[code] = name
             ELSE /\ selector2code' = selector2code
                  /\ code2selector' = code2selector]_vars

(* Two high-priority names of one length met: the first one stays. *)
ReplacementRuleWitness ==
    /\ SelectorDone
    /\ defs = <<Def("kAudioStreamPropertyLatency", "'ltnc'"),
                Def("kAudioDevicePropertyStreams", "'ltnc'")>>
    /\ selector2code = ("kAudioStreamPropertyLatency" :> "'ltnc'")
    /\ code2selector = ("'ltnc'" :> "kAudioStreamPropertyLatency")

(***************************************************************************)
(* C10                                                                     *)
(***************************************************************************)

(* How much of the text the loop of a phase has handled. *)
PhaseNo(p) ==
    CASE p = "selector" -> 1 [] p = "KeyError" -> 1 [] p = "class" -> 2
      [] p = "scope" -> 3 [] p = "operation" -> 4 [] p = "error" -> 5
      [] p = "format" -> 6 [] p = "render" -> 7

Handled(p) ==
    IF PhaseNo(pc) < PhaseNo(p) THEN 0
    ELSE IF pc = p THEN pos - 1
    ELSE Len(defs)

(* map holds the name of every definition at the positions `at`, each
   with the code of its last definition among them. *)
LastWins(map, at) ==
    /\ DOMAIN map = {defs[j].name : j \in at}
    /\ \A j \in at :
          (\A k \in at : defs[k].name = defs[j].name => k <= j)
          => map[defs[j].name] = defs[j].lit

(* C10: at every step class2code, scope2code, operation2code and
   error2code hold every name matched so far (none is ever removed), each
   with the code of its last occurrence, whether or not codes repeat. *)
LastDefinitionWins ==
    /\ LastWins(class2code, {j \in 1..Handled("class") : ClassRe(defs[j])})
    /\ LastWins(scope2code, {j \in 1..Handled("scope") : ScopeRe(defs[j])})
    /\ LastWins(operation2code, {j \in 1..Handled("operation") : OperationRe(defs[j])})
    /\ LastWins(error2code, {j \in 1..Handled("error") : ErrorRe(defs[j])})

(* A class was defined twice, with two codes, and ends with the code of
   another class. *)
LastDefinitionWinsWitness ==
    /\ pc = "render"
    /\ defs = <<Def("kAudioDeviceClassID", "'stm#'"), Def("kAudioDeviceClassID", "'ltnc'"),
                Def("kAudioStreamClassID", "'ltnc'")>>
    /\ class2code = ("kAudioDeviceClassID" :> "'ltnc'" @@ "kAudioStreamClassID" :> "'ltnc'")

(***************************************************************************)
(* C2                                                                      *)
(***************************************************************************)

(* The text in the order p. *)
Orders == {p \in [1..Len(defs) -> 1..Len(defs)] : \A j, k \in 1..Len(defs) : p[j] = p[k] => j = k}
Permuted(p) == [j \in 1..Len(defs) |-> defs[p[j]]]

(* The names of Group(c) no other name of the group is preferred to. *)
Best(c) == {b \in Group(c) : \A n \in Group(c) : ~Preferred(n, b)}

(* C2 as stated: every order of the text gives every code the winner
   this order gave it, also when names of one status and length compete. *)
OrderIndependent ==
    (SelectorDone /\ ~Redefinition) =>
        \A p \in Orders : \A c \in AcceptedCodes :
            Holders(ScanSelectors(Permuted(p), EmptyDict, EmptyDict).s2c, c)
                = Holders(selector2code, c)

(* C2, amended: when no name is defined with two codes, every order of
   the text gives the same winner to every code whose group has a single
   best name (no other name of the group has its status and length). *)
OrderIndependentUniqueBest ==
    (SelectorDone /\ ~Redefinition) =>
        \A p \in Orders : \A c \in AcceptedCodes :
            Cardinality(Best(c)) = 1 =>
                Holders(ScanSelectors(Permuted(p), EmptyDict, EmptyDict).s2c, c)
                    = Holders(selector2code, c)

(* Three names share a code, the best one came last and won. *)
OrderIndependentWitness ==
    /\ SelectorDone
    /\ defs = <<Def("kAudioClockDevicePropertyStreams", "'stm#'"),
                Def("kAudioBoxPropertyUID", "'stm#'"),
                Def("kAudioDevicePropertyStreams", "'stm#'")>>
    /\ Best("'stm#'") = {"kAudioDevicePropertyStreams"}
    /\ Holders(selector2code, "'stm#'") = {"kAudioDevicePropertyStreams"}
====
